---- MODULE Spec2Model ----
(***************************************************************************)
(* Model of the Bitwarden JSON importer, src/format/Bitwarden.cpp:         *)
(* BitwardenReader::convert, writeVaultToDatabase and readItem.            *)
(*                                                                         *)
(* One call of convert is a run of the program counter pc from "idle" to   *)
(* "done"; the statements of the three functions are the actions, in the   *)
(* order of the source.  The file the path refers to (missing, unreadable, *)
(* or readable with some content) is the input of a call.                  *)
(***************************************************************************)
EXTENDS Integers, Sequences, FiniteSets, TLC

VARIABLES
    pc,          \* position inside convert / writeVaultToDatabase / readItem
    m_error,     \* BitwardenReader::m_error
    lastFailed,  \* hasError() as the caller saw it after the previous call
    file,        \* the file the path of the current call refers to
    fileOpen,    \* QFile file is open
    opens,       \* number of successful file.open() in the current call
    db,          \* the Database created by the current call, or NoDb
    vault,       \* json.object()
    folderMap,   \* QMap<QString, Group*> folderMap, as a set of <<key, group>>
    fi,          \* number of folders already turned into groups
    ii,          \* number of items already attached
    folderId,    \* QString folderId of writeVaultToDatabase
    entry,       \* the Entry under construction in readItem, or NoEntry
    i,           \* int i of readItem (index of the next overflow URL)
    ui,          \* number of elements of login.uris already visited
    fli,         \* number of elements of fields already visited
    ret          \* what convert returned: "none" (not yet), "null" or "db"

vars == <<pc, m_error, lastFailed, file, fileOpen, opens, db, vault, folderMap,
          fi, ii, folderId, entry, i, ui, fli, ret>>

\* -----------------------------------------------------------------------
\* Bounds of the inputs
\* -----------------------------------------------------------------------
MaxFolders == 2
MaxItems == 2
MaxUris == 3
MaxFields == 3

\* -----------------------------------------------------------------------
\* JSON leaf values and the Qt conversions applied to them
\* -----------------------------------------------------------------------
Abs == [k |-> "abs", s |-> "", n |-> 0]
Null == [k |-> "null", s |-> "", n |-> 0]
Str(x) == [k |-> "str", s |-> x, n |-> 0]
Num(x) == [k |-> "num", s |-> "", n |-> x]

Digits == <<"0", "1", "2", "3", "4", "5", "6", "7", "8", "9">>

RECURSIVE NumStr(_)
NumStr(n) ==
    IF n < 10 THEN Digits[n + 1] ELSE NumStr(n \div 10) \o Digits[(n % 10) + 1]

\* the non-negative integers whose decimal form the inputs can spell
Numerals == {0, 1, 2, 1600000000, 1650000000}

\* QVariant::toString(): a string as is, a number formatted, else empty
VariantToString(v) ==
    CASE v.k = "str" -> v.s
      [] v.k = "num" -> NumStr(v.n)
      [] OTHER -> ""

\* QJsonValue::toString(): a string as is, anything else the default ""
JsonToString(v) == IF v.k = "str" THEN v.s ELSE ""

\* QString::toULongLong()/toInt(): the number a decimal string spells, else 0
ParseNumber(s) ==
    IF \E n \in Numerals : NumStr(n) = s
    THEN CHOOSE n \in Numerals : NumStr(n) = s
    ELSE 0

\* QVariant::toULongLong() / QVariant::toInt()
VariantToNumber(v) ==
    CASE v.k = "num" -> v.n
      [] v.k = "str" -> ParseNumber(v.s)
      [] OTHER -> 0

\* sequences over S of length at most n
SeqUpTo(S, n) == UNION {[1..m -> S] : m \in 0..n}

\* -----------------------------------------------------------------------
\* The inputs: vault documents and the files holding them
\* -----------------------------------------------------------------------
NoIdentity ==
    [address1 |-> Abs, city |-> Abs, state |-> Abs, postalCode |-> Abs,
     postalcode |-> Abs, country |-> Abs]

BaseItem ==
    [folderId |-> Abs, hasLogin |-> FALSE, uris |-> <<>>, hasIdentity |-> FALSE,
     identity |-> NoIdentity, fields |-> <<>>, createdAt |-> Abs, updatedAt |-> Abs]

EmptyObject == [hasFolders |-> FALSE, hasItems |-> FALSE, folders |-> <<>>, items |-> <<>>]

Folder(id) == [id |-> id, name |-> Str("Work")]

FolderIdVals == {Abs, Str(""), Str("f1")}
ItemFolderIdVals == {Abs, Str(""), Str("f1")}
UriVals == {Str(""), Str("u1"), Str("u2")}
FieldNames == {"a", "a_s1"}
\* a value and a type: an open field and a protected one
FieldValues == {<<"v1", Num(0)>>, <<"v2", Num(1)>>}
TypeVals == {Abs, Null, Num(0), Num(1), Num(2), Str("1"), Str("x")}
TimeVals == {Abs, Null, Num(0), Num(1600000000), Num(1650000000), Str("abc"), Str("1600000000")}
Suffixes == {"s1", "s2"}

Field(name, value, type) == [name |-> Str(name), value |-> Str(value), type |-> type]

OneItemVault(folders, item) ==
    [hasFolders |-> TRUE, hasItems |-> TRUE, folders |-> folders, items |-> <<item>>]

\* folder and item lists of every shape, with or without the two keys
VaultShape(hf, hi, fs, is) ==
    [hasFolders |-> hf, hasItems |-> hi,
     folders |-> [n \in DOMAIN fs |-> Folder(fs[n])],
     items |-> [n \in DOMAIN is |-> [BaseItem EXCEPT !.folderId = is[n]]]]

VaultsStructure ==
    { VaultShape(TRUE, TRUE, fs, is) :
        fs \in SeqUpTo(FolderIdVals, MaxFolders), is \in SeqUpTo(ItemFolderIdVals, MaxItems) }
    \cup { VaultShape(TRUE, FALSE, fs, <<>>) : fs \in SeqUpTo(FolderIdVals, MaxFolders) }
    \cup { VaultShape(FALSE, TRUE, <<>>, is) : is \in SeqUpTo(ItemFolderIdVals, MaxItems) }
    \cup { VaultShape(FALSE, FALSE, <<>>, <<>>) }

\* one login item, every list of uris
VaultsUris ==
    { OneItemVault(<<>>, [BaseItem EXCEPT !.hasLogin = TRUE, !.uris = us]) :
        us \in SeqUpTo(UriVals, MaxUris) }

\* one item, every list of custom fields
VaultsFields ==
    { OneItemVault(<<>>, [BaseItem EXCEPT !.fields = fl]) :
        fl \in SeqUpTo({Field(nm, vt[1], vt[2]) : nm \in FieldNames, vt \in FieldValues},
                        MaxFields) }

\* one item with a single field of every type
VaultsTypes ==
    { OneItemVault(<<>>, [BaseItem EXCEPT !.fields = <<Field("a", "v1", t)>>]) :
        t \in TypeVals }

\* one identity item, every subset of the address keys, with or without a
\* custom field that is itself called identity_address
VaultsIdentity ==
    { OneItemVault(<<>>, [BaseItem EXCEPT !.hasIdentity = TRUE, !.identity = id, !.fields = fl]) :
        id \in [address1 : {Abs, Str("1 Main St")}, city : {Abs, Str("Santa Barbara")},
                state : {Abs, Str("CA")}, postalCode : {Abs, Str("93103")},
                postalcode : {Abs}, country : {Abs, Str("US")}],
        fl \in {<<>>, <<Field("identity_address", "v1", Num(0))>>} }

\* one item with every pair of timestamps, filed in a folder or not
VaultsTimes ==
    { OneItemVault(<<Folder(Str("f1"))>>,
                   [BaseItem EXCEPT !.createdAt = c, !.updatedAt = u, !.folderId = f]) :
        c \in TimeVals, u \in TimeVals, f \in {Abs, Str("f1")} }

Vaults ==
    VaultsStructure \cup VaultsUris \cup VaultsFields \cup VaultsTypes
        \cup VaultsIdentity \cup VaultsTimes

\* a file: what the path refers to
NoContent == [kind |-> "garbage", obj |-> EmptyObject]

Files ==
    {[status |-> "missing", content |-> NoContent],
     [status |-> "unreadable", content |-> NoContent],
     [status |-> "ok", content |-> NoContent],
     [status |-> "ok", content |-> [kind |-> "array", obj |-> EmptyObject]]}
        \cup {[status |-> "ok", content |-> [kind |-> "object", obj |-> v]] : v \in Vaults}

\* QJsonDocument::fromJson(bytes).object(): the top-level object, or an empty
\* object when the bytes do not parse or the document is not an object
JsonObject(content) == IF content.kind = "object" THEN content.obj ELSE EmptyObject

\* -----------------------------------------------------------------------
\* The object model the importer writes to
\* -----------------------------------------------------------------------
NoDb == [groups |-> <<>>]
NoEntry == [id |-> 0, url |-> "", attrs |-> {}, created |-> 0, modified |-> 0,
            accessed |-> 0, group |-> 0]

\* QSharedPointer<Database>::create(): a database owning its root group only
NewDatabase == [groups |-> <<[name |-> "Root", parent |-> 0, entries |-> <<>>]>>]

\* db->rootGroup()
RootGroup == 1

\* new Entry(): no url, no custom attribute, no group
NewEntry(id) == [NoEntry EXCEPT !.id = id]

\* EntryAttributes::hasKey
HasKey(attrs, key) == \E a \in attrs : a.name = key

\* EntryAttributes::set: the value and the protected flag stored under key
\* are replaced, or the attribute is added
SetAttribute(attrs, key, value, protect) ==
    {a \in attrs : a.name # key} \cup {[name |-> key, value |-> value, protect |-> protect]}

\* Group::setParent(parent) of a new Group: the group joins the database
\* as a child of parent
AddGroup(d, name, parent) ==
    [d EXCEPT !.groups = Append(@, [name |-> name, parent |-> parent, entries |-> <<>>])]

\* Entry::setGroup(group, false) of an entry that has no group yet: the group
\* adopts the entry; the entry's time info is left as it is
SetGroup(d, e, g) ==
    [d EXCEPT !.groups[g].entries = Append(@, [e EXCEPT !.group = g])]

\* QMap::insert: at most one group per key, the last insert wins
FolderMapInsert(fm, key, g) == {p \in fm : p[1] # key} \cup {<<key, g>>}

\* QMap::value(key, defaultValue)
FolderMapValue(fm, key, default) ==
    IF \E p \in fm : p[1] = key THEN (CHOOSE p \in fm : p[1] = key)[2] ELSE default

\* -----------------------------------------------------------------------
\* readItem, statement by statement
\* -----------------------------------------------------------------------
\* the item readItem is working on
Item == vault.items[ii + 1]

\* one round of the uris loop: the url goes to the primary URL while that is
\* empty, and to the next KP2A_URL_<i> attribute otherwise
ReadUri(e, idx, url) ==
    IF e.url = ""
    THEN [entry |-> [e EXCEPT !.url = url], i |-> idx]
    ELSE [entry |-> [e EXCEPT !.attrs = SetAttribute(@, "KP2A_URL_" \o NumStr(idx), url, FALSE)],
          i |-> idx + 1]

\* the address composed from the identity map
IdentityAddress(idMap) ==
    VariantToString(idMap["address1"]) \o "\n" \o VariantToString(idMap["city"]) \o ", "
        \o VariantToString(idMap["state"]) \o " " \o VariantToString(idMap["postalcode"])
        \o "\n" \o VariantToString(idMap["country"])

\* the name a field is stored under: its own, or its own with a piece of a
\* fresh uuid appended when the entry already has an attribute of that name
FieldName(attrs, name, suffix) ==
    IF HasKey(attrs, name) THEN name \o "_" \o suffix ELSE name

\* type == 1
IsProtected(type) == VariantToNumber(type) = 1

\* one round of the fields loop
ReadField(e, field, suffix) ==
    [e EXCEPT !.attrs = SetAttribute(@, FieldName(@, VariantToString(field.name), suffix),
                                     VariantToString(field.value), IsProtected(field.type))]

\* SetTimes with the access time taken from the creation time
SetTimesAccessCreated(e, item) ==
    [e EXCEPT !.created = VariantToNumber(item.createdAt),
              !.modified = VariantToNumber(item.updatedAt),
              !.accessed = VariantToNumber(item.createdAt)]

\* the time info given to the entry
SetTimes(e, item) ==
    [e EXCEPT !.created = VariantToNumber(item.createdAt),
              !.modified = VariantToNumber(item.updatedAt),
              !.accessed = VariantToNumber(item.updatedAt)]

\* where readItem continues after the login block, and after the identity block
AfterIdentity(item) == IF item.fields # <<>> THEN "fields" ELSE "times"
AfterLogin(item) == IF item.hasIdentity THEN "identity" ELSE AfterIdentity(item)

ReadItemBegin ==
    /\ pc = "items"
    /\ folderId' = VariantToString(Item.folderId)
    /\ entry' = NewEntry(ii + 1)
    /\ i' = IF Item.hasLogin THEN 1 ELSE 0
    /\ ui' = 0
    /\ fli' = 0
    /\ pc' = IF Item.hasLogin /\ Item.uris # <<>> THEN "uris" ELSE AfterLogin(Item)
    /\ UNCHANGED <<m_error, lastFailed, file, fileOpen, opens, db, vault, folderMap, fi, ii, ret>>

ReadItemUri ==
    /\ pc = "uris"
    /\ LET r == ReadUri(entry, i, JsonToString(Item.uris[ui + 1]))
       IN /\ entry' = r.entry
          /\ i' = r.i
    /\ ui' = ui + 1
    /\ pc' = IF ui + 1 = Len(Item.uris) THEN AfterLogin(Item) ELSE "uris"
    /\ UNCHANGED <<m_error, lastFailed, file, fileOpen, opens, db, vault, folderMap, fi, ii,
                   folderId, fli, ret>>

ReadItemIdentity ==
    /\ pc = "identity"
    /\ entry' = [entry EXCEPT !.attrs = SetAttribute(@, "identity_address",
                                                     IdentityAddress(Item.identity), FALSE)]
    /\ pc' = AfterIdentity(Item)
    /\ UNCHANGED <<m_error, lastFailed, file, fileOpen, opens, db, vault, folderMap, fi, ii,
                   folderId, i, ui, fli, ret>>

ReadItemField ==
    /\ pc = "fields"
    /\ \E suffix \in Suffixes : entry' = ReadField(entry, Item.fields[fli + 1], suffix)
    /\ fli' = fli + 1
    /\ pc' = IF fli + 1 = Len(Item.fields) THEN "times" ELSE "fields"
    /\ UNCHANGED <<m_error, lastFailed, file, fileOpen, opens, db, vault, folderMap, fi, ii,
                   folderId, i, ui, ret>>

ReadItemEnd ==
    /\ pc = "times"
    /\ entry' = SetTimes(entry, Item)
    /\ pc' = "attach"
    /\ UNCHANGED <<m_error, lastFailed, file, fileOpen, opens, db, vault, folderMap, fi, ii,
                   folderId, i, ui, fli, ret>>

\* -----------------------------------------------------------------------
\* writeVaultToDatabase
\* -----------------------------------------------------------------------
\* VaultIsComplete that looks for the items key only
VaultHasItems(v) == v.hasItems

\* the vault has both keys
VaultIsComplete(v) == v.hasFolders /\ v.hasItems

\* FolderGroup that makes no second group for a folder id it has seen
FolderGroupOncePerId(d, fm, folder) ==
    IF \E p \in fm : p[1] = JsonToString(folder.id)
    THEN d
    ELSE AddGroup(d, JsonToString(folder.name), RootGroup)

\* the group made for one folder
FolderGroup(d, fm, folder) == AddGroup(d, JsonToString(folder.name), RootGroup)

\* the group an entry is attached to
ResolveGroup(fm, id) == FolderMapValue(fm, id, RootGroup)

WriteVaultCheck ==
    /\ pc = "write"
    /\ pc' = IF VaultIsComplete(vault) THEN "folders" ELSE "return"
    /\ folderMap' = {}
    /\ UNCHANGED <<m_error, lastFailed, file, fileOpen, opens, db, vault, fi, ii, folderId,
                   entry, i, ui, fli, ret>>

WriteVaultFolder ==
    /\ pc = "folders"
    /\ fi < Len(vault.folders)
    /\ LET folder == vault.folders[fi + 1]
           d == FolderGroup(db, folderMap, folder)
       IN /\ db' = d
          /\ folderMap' = FolderMapInsert(folderMap, JsonToString(folder.id), Len(d.groups))
    /\ fi' = fi + 1
    /\ UNCHANGED <<pc, m_error, lastFailed, file, fileOpen, opens, vault, ii, folderId,
                   entry, i, ui, fli, ret>>

WriteVaultItems ==
    /\ pc = "folders"
    /\ fi = Len(vault.folders)
    /\ folderId' = ""
    /\ pc' = IF vault.items = <<>> THEN "return" ELSE "items"
    /\ UNCHANGED <<m_error, lastFailed, file, fileOpen, opens, db, vault, folderMap, fi, ii,
                   entry, i, ui, fli, ret>>

WriteVaultAttach ==
    /\ pc = "attach"
    /\ db' = SetGroup(db, entry, ResolveGroup(folderMap, folderId))
    /\ entry' = NoEntry
    /\ ii' = ii + 1
    /\ pc' = IF ii + 1 = Len(vault.items) THEN "return" ELSE "items"
    /\ UNCHANGED <<m_error, lastFailed, file, fileOpen, opens, vault, folderMap, fi, folderId,
                   i, ui, fli, ret>>

\* -----------------------------------------------------------------------
\* BitwardenReader
\* -----------------------------------------------------------------------
hasError == m_error # ""
errorString == m_error

\* ClearError that leaves the message of the previous call in place
ClearErrorSkipped(e) == e

\* m_error.clear()
ClearError(e) == ""

\* CloseFile that leaves the file open
CloseFileSkipped(open) == open

\* file.close()
CloseFile(open) == FALSE

\* between two calls: the caller holds the reader only; the locals of the
\* finished call and the database it returned are gone
Forget ==
    /\ pc = "done"
    /\ pc' = "idle"
    /\ file' = [status |-> "missing", content |-> NoContent]
    /\ fileOpen' = FALSE
    /\ opens' = 0
    /\ db' = NoDb
    /\ vault' = EmptyObject
    /\ folderMap' = {}
    /\ fi' = 0
    /\ ii' = 0
    /\ folderId' = ""
    /\ entry' = NoEntry
    /\ i' = 0
    /\ ui' = 0
    /\ fli' = 0
    /\ ret' = "none"
    /\ UNCHANGED <<m_error, lastFailed>>

ConvertCall(f) ==
    /\ pc = "idle"
    /\ lastFailed' = hasError
    /\ file' = f
    /\ IF f.status = "missing"
       THEN /\ m_error' = "File does not exist."
            /\ ret' = "null"
            /\ pc' = "done"
       ELSE /\ m_error' = ClearError(m_error)
            /\ ret' = "none"
            /\ pc' = "open"
    /\ UNCHANGED <<fileOpen, opens, db, vault, folderMap, fi, ii, folderId, entry, i, ui, fli>>

ConvertOpen ==
    /\ pc = "open"
    /\ IF file.status = "unreadable"
       THEN /\ m_error' = "Cannot open file: " \o "Permission denied"
            /\ ret' = "null"
            /\ pc' = "done"
            /\ UNCHANGED <<fileOpen, opens>>
       ELSE /\ fileOpen' = TRUE
            /\ opens' = opens + 1
            /\ pc' = "read"
            /\ UNCHANGED <<m_error, ret>>
    /\ UNCHANGED <<lastFailed, file, db, vault, folderMap, fi, ii, folderId, entry, i, ui, fli>>

ConvertRead ==
    /\ pc = "read"
    /\ db' = NewDatabase
    /\ vault' = JsonObject(file.content)
    /\ pc' = "close"
    /\ UNCHANGED <<m_error, lastFailed, file, fileOpen, opens, folderMap, fi, ii, folderId,
                   entry, i, ui, fli, ret>>

ConvertClose ==
    /\ pc = "close"
    /\ fileOpen' = CloseFile(fileOpen)
    /\ pc' = "write"
    /\ UNCHANGED <<m_error, lastFailed, file, opens, db, vault, folderMap, fi, ii, folderId,
                   entry, i, ui, fli, ret>>

ConvertReturn ==
    /\ pc = "return"
    /\ ret' = "db"
    /\ fileOpen' = FALSE
    /\ pc' = "done"
    /\ UNCHANGED <<m_error, lastFailed, file, opens, db, vault, folderMap, fi, ii, folderId,
                   entry, i, ui, fli>>

Init ==
    /\ pc = "idle"
    /\ m_error = ""
    /\ lastFailed = FALSE
    /\ file = [status |-> "missing", content |-> NoContent]
    /\ fileOpen = FALSE
    /\ opens = 0
    /\ db = NoDb
    /\ vault = EmptyObject
    /\ folderMap = {}
    /\ fi = 0
    /\ ii = 0
    /\ folderId = ""
    /\ entry = NoEntry
    /\ i = 0
    /\ ui = 0
    /\ fli = 0
    /\ ret = "none"

Next ==
    \/ \E f \in Files : ConvertCall(f)
    \/ ConvertOpen
    \/ ConvertRead
    \/ ConvertClose
    \/ WriteVaultCheck
    \/ WriteVaultFolder
    \/ WriteVaultItems
    \/ ReadItemBegin
    \/ ReadItemUri
    \/ ReadItemIdentity
    \/ ReadItemField
    \/ ReadItemEnd
    \/ WriteVaultAttach
    \/ ConvertReturn
    \/ Forget

Spec == Init /\ [][Next]_vars

\* -----------------------------------------------------------------------
\* Reading the result and the input
\* -----------------------------------------------------------------------
\* the vault object the file of the current call holds
Input == file.content.obj

\* a string value of the input as written, "" when it is missing
Text(v) == IF v.k = "str" THEN v.s ELSE ""

AllEntries(d) ==
    UNION {{d.groups[g].entries[k] : k \in DOMAIN d.groups[g].entries} : g \in DOMAIN d.groups}

EntrySlots(d) ==
    UNION {{<<g, k>> : k \in DOMAIN d.groups[g].entries} : g \in DOMAIN d.groups}

GroupsHolding(d, id) ==
    {g \in DOMAIN d.groups : \E k \in DOMAIN d.groups[g].entries : d.groups[g].entries[k].id = id}

EntryOfItem(d, n) == CHOOSE e \in AllEntries(d) : e.id = n

Converted == pc = "done" /\ ret = "db" /\ file.content.kind = "object"
    /\ Input.hasFolders /\ Input.hasItems

\* t is the time the input value v stands for: its number of seconds, and 0
\* when it is absent, null or a string that spells no number
TimeAsClaimed(v, t) ==
    /\ v.k = "num" => t = v.n
    /\ (v.k \in {"abs", "null"} \/ (v.k = "str" /\ \A n \in Numerals : NumStr(n) # v.s)) => t = 0

InWriteVault ==
    pc \in {"write", "folders", "items", "uris", "identity", "fields", "times", "attach",
            "return"}

\* -----------------------------------------------------------------------
\* C1: every call of convert ends either with a database and no error, or
\* with no database and a non-empty error; the second exactly when the file
\* is missing or cannot be opened, whatever the previous call did.
\* -----------------------------------------------------------------------
C1_EitherDatabaseOrError ==
    pc = "done" =>
        /\ \/ ret = "db" /\ db # NoDb /\ ~hasError /\ errorString = ""
           \/ ret = "null" /\ hasError /\ errorString # ""
        /\ ret = "null" <=> file.status \in {"missing", "unreadable"}

C1_Witness == pc = "done" /\ ret = "db" /\ db # NoDb /\ lastFailed /\ ~hasError

\* -----------------------------------------------------------------------
\* C2: for a vault with both keys there are as many entries as items and
\* as many non-root groups as folders; every entry is in exactly one group
\* and every non-root group is a child of the root.
\* -----------------------------------------------------------------------
C2_CountsMatch ==
    Converted =>
        /\ Cardinality(EntrySlots(db)) = Len(Input.items)
        /\ Len(db.groups) - 1 = Len(Input.folders)
        /\ \A n \in DOMAIN Input.items : Cardinality(GroupsHolding(db, n)) = 1
        /\ \A e \in AllEntries(db) : e.id \in DOMAIN Input.items /\ e.group \in GroupsHolding(db, e.id)
        /\ \A g \in DOMAIN db.groups : g # RootGroup => db.groups[g].parent = RootGroup

C2_Witness ==
    /\ Converted
    /\ Len(Input.folders) = 2 /\ Input.folders[1].id = Input.folders[2].id
    /\ Len(Input.items) = 2 /\ Input.items[1].folderId = Str("f1")
    /\ Input.items[2].folderId = Str("f1") /\ Input.folders[1].id = Str("f1")
    /\ Len(db.groups) = 3

\* -----------------------------------------------------------------------
\* C3: an item whose folderId is absent, empty or the id of no folder is
\* attached to the root group; any other item to a group made from a folder
\* with that id.
\* -----------------------------------------------------------------------
C3_UnmatchedGoesToRoot ==
    Converted =>
        \A n \in DOMAIN Input.items :
            LET fid == Input.items[n].folderId
                matches == {m \in DOMAIN Input.folders : Input.folders[m].id = fid}
                g == EntryOfItem(db, n).group
            IN IF fid.k # "str" \/ fid.s = "" \/ matches = {}
               THEN g = RootGroup
               ELSE g - 1 \in matches

\* -----------------------------------------------------------------------
\* C4: with two or more uris the primary URL is uris[0] and the attribute
\* KP2A_URL_<n> holds uris[n] for every n from 1 to the last index.
\* -----------------------------------------------------------------------
C4_FirstUriIsPrimary ==
    Converted =>
        \A n \in DOMAIN Input.items :
            LET it == Input.items[n]
                e == EntryOfItem(db, n)
            IN (it.hasLogin /\ Len(it.uris) >= 2) =>
                /\ e.url = Text(it.uris[1])
                /\ \A m \in 1..(Len(it.uris) - 1) :
                       \E a \in e.attrs : /\ a.name = "KP2A_URL_" \o NumStr(m)
                                          /\ a.value = Text(it.uris[m + 1])

\* -----------------------------------------------------------------------
\* C5: every element of fields becomes an attribute of its own: the fields
\* loop adds as many attributes as it has visited fields.
\* -----------------------------------------------------------------------
C5_OneAttributePerField ==
    pc \in {"fields", "times", "attach"} =>
        Cardinality(entry.attrs) =
            (IF Item.hasIdentity THEN 1 ELSE 0) + (IF Item.hasLogin THEN i - 1 ELSE 0) + fli

\* -----------------------------------------------------------------------
\* C6: a readable file whose vault lacks the folders key or the items key
\* (malformed JSON included) gives a database with its root group only, no
\* entry, no other group and no error.
\* -----------------------------------------------------------------------
C6_IncompleteVaultIsEmpty ==
    (pc = "done" /\ file.status = "ok"
        /\ (file.content.kind # "object" \/ ~Input.hasFolders \/ ~Input.hasItems)) =>
        /\ ret = "db"
        /\ Len(db.groups) = 1
        /\ db.groups[RootGroup].entries = <<>>
        /\ ~hasError

C6_Witness ==
    /\ pc = "done" /\ ret = "db" /\ file.content.kind = "object"
    /\ Input.hasFolders /\ Len(Input.folders) = 2 /\ ~Input.hasItems
    /\ Len(db.groups) = 1

C8_ProtectedIffTypeOne ==
    [][ReadItemField =>
          LET f == Item.fields[fli + 1]
          IN /\ f.type.k # "str" =>
                    \E b \in entry'.attrs : /\ b.value = Text(f.value)
                                            /\ b.protect = (f.type = Num(1))
             /\ \A a \in entry.attrs :
                    \E b \in entry'.attrs : b.name = a.name /\ b.protect = a.protect]_vars

\* -----------------------------------------------------------------------
\* C9: an identity item gets the attribute identity_address with the value
\* <address1>\n<city>, <state> <postalCode>\n<country>.
\* -----------------------------------------------------------------------
C9_AddressHasPostalCode ==
    Converted =>
        \A n \in DOMAIN Input.items :
            LET it == Input.items[n]
                e == EntryOfItem(db, n)
            IN it.hasIdentity =>
                \E a \in e.attrs :
                    /\ a.name = "identity_address"
                    /\ a.value = Text(it.identity.address1) \o "\n" \o Text(it.identity.city)
                           \o ", " \o Text(it.identity.state) \o " "
                           \o Text(it.identity.postalCode) \o "\n" \o Text(it.identity.country)

\* -----------------------------------------------------------------------
\* C10: the file is not open when convert returns, on any path; it is
\* opened at most once, it is closed before writeVaultToDatabase runs, and
\* the failing paths create no database.
\* -----------------------------------------------------------------------
C10_FileClosed ==
    /\ pc = "done" => ~fileOpen
    /\ InWriteVault => ~fileOpen /\ opens = 1
    /\ opens <= 1
    /\ (pc = "done" /\ ret = "null") => db = NoDb /\ opens = 0

C10_Witness == pc = "folders" /\ ~fileOpen /\ opens = 1 /\ db # NoDb /\ Input.folders # <<>>
====
